---- MODULE Spec2Model ----
(***************************************************************************)
(* Model of src/base64Loader.js: the base64load() sass function factory,   *)
(* its sync and async handlers, the cache facade, local and remote source  *)
(* resolution and mimetype detection.                                      *)
(*                                                                         *)
(* Text is modelled as a sequence of tokens (TLC cannot index strings):    *)
(* a source is <<"a.gif">> or <<"http:", "//h/a.png">>, a path is          *)
(* <<"/", "w", "/", "a.gif">>, an output is <<"\"data:", mime, ";base64,", *)
(* c1, c2, ..., "\"">>.  A Buffer is a sequence of bytes 0..255.           *)
(***************************************************************************)
EXTENDS Integers, Sequences, FiniteSets, Bags, TLC

(***************************************************************************)
(* Bounds of the model.                                                    *)
(***************************************************************************)
MaxSlots == 2           \* handler invocations in flight at once
MaxInvocations == 2     \* handler invocations in one behaviour
MaxLoaderInvocations == 1   \* the same, in the behaviours with factory calls
MaxFactoryCalls == 3    \* factory calls in one behaviour

(***************************************************************************)
(* JS values.                                                              *)
(***************************************************************************)
Null == "<null>"        \* null / undefined / sass.sassNull (where a string may stand)
NoText == <<>>          \* undefined or "" where a text may stand: both falsy
NoPath == <<>>          \* null where a path may stand
NoBuf == <<-1>>         \* null where a Buffer may stand

IsEmpty(mime) == mime = Null \/ mime = ""      \* !mime || !mime.length

(***************************************************************************)
(* Buffer.toString( 'base64' ), line 234 and 259.                          *)
(***************************************************************************)
B64Alphabet ==
    << "A","B","C","D","E","F","G","H","I","J","K","L","M","N","O","P",
       "Q","R","S","T","U","V","W","X","Y","Z","a","b","c","d","e","f",
       "g","h","i","j","k","l","m","n","o","p","q","r","s","t","u","v",
       "w","x","y","z","0","1","2","3","4","5","6","7","8","9","+","/" >>

B64(n) == B64Alphabet[n + 1]

RECURSIVE Base64(_)
Base64(b) ==
    IF Len(b) = 0 THEN <<>>
    ELSE IF Len(b) = 1 THEN
        << B64(b[1] \div 4), B64((b[1] % 4) * 16), "=", "=" >>
    ELSE IF Len(b) = 2 THEN
        << B64(b[1] \div 4), B64((b[1] % 4) * 16 + b[2] \div 16),
           B64((b[2] % 16) * 4), "=" >>
    ELSE
        << B64(b[1] \div 4), B64((b[1] % 4) * 16 + b[2] \div 16),
           B64((b[2] % 16) * 4 + b[3] \div 64), B64(b[3] % 64) >>
        \o Base64(SubSeq(b, 4, Len(b)))

\* `"data:${mime};base64,${file_buffer.toString( 'base64' )}"`
DataUri(mime, file_buffer) ==
    << "\"data:", mime, ";base64," >> \o Base64(file_buffer) \o << "\"" >>

(***************************************************************************)
(* The world outside the module: the file system, the remote host and the  *)
(* file-type sniffer.  Contents are fixed; whether a fetch succeeds is not.*)
(***************************************************************************)
ProcessCwd == << "/", "w" >>
SrvDir == << "/", "srv" >>

GifBytes == << 71, 73, 70, 56 >>     \* "GIF8"
PngBytes == << 137, 80 >>
TxtBytes == << 104, 105, 10 >>       \* "hi\n"

SrcEmpty == <<>>
SrcGif == << "a.gif" >>
SrcTxt == << "n.txt" >>
SrcDir == << "img" >>
SrcAbs == << "/", "srv", "/", "a.gif" >>
SrcHttp == << "http:", "//h/a.png" >>
SrcHttps == << "https:", "//h/raw" >>

\* fs.lstatSync( file ): "file", "dir", or "none" (lstat throws)
FsKind(file) ==
    IF file \in { ProcessCwd \o << "/" >> \o SrcGif,
                  ProcessCwd \o << "/" >> \o SrcTxt, SrcAbs } THEN "file"
    ELSE IF file = ProcessCwd \o << "/" >> \o SrcDir THEN "dir"
    ELSE "none"

\* fs.readFileSync( file )
FsBytes(file) ==
    IF file = ProcessCwd \o << "/" >> \o SrcGif THEN GifBytes
    ELSE IF file = SrcAbs THEN PngBytes
    ELSE TxtBytes

\* result.buffer() and result.headers.get( 'content-type' ) of an ok response
RemoteBody(source) == IF source = SrcHttp THEN PngBytes ELSE TxtBytes
RemoteContentType(source) == IF source = SrcHttp THEN "image/png" ELSE Null

\* fileType.fromBuffer( file_buffer ): the mime of a known magic number, else Null
FromBuffer(file_buffer) ==
    IF Len(file_buffer) >= 3 /\ SubSeq(file_buffer, 1, 3) = << 71, 73, 70 >>
        THEN "image/gif"
    ELSE IF Len(file_buffer) >= 2 /\ SubSeq(file_buffer, 1, 2) = << 137, 80 >>
        THEN "image/png"
    ELSE Null

\* fileType.fromFile( file ): sniffs the file's content
FromFile(file) == FromBuffer(FsBytes(file))

(***************************************************************************)
(* isUrl, line 33-41: new URL( str ) parses only a text that starts with a *)
(* scheme; the protocol must be http: or https:.                           *)
(***************************************************************************)
Schemes == { "http:", "https:", "ftp:" }

isUrl(str) ==
    IF Len(str) >= 2 /\ str[1] \in Schemes
        THEN str[1] = "http:" \/ str[1] = "https:"
        ELSE FALSE

(***************************************************************************)
(* Sass values handed to the function: input[ 0 ] and input[ 1 ].          *)
(***************************************************************************)
SassString(text) == [type |-> "string", text |-> text]
SassNumberSource == [type |-> "number", text |-> <<>>]
SassNumberMime == [type |-> "number", text |-> Null]
sassNull == [type |-> "null", text |-> Null]

SourceTexts == { SrcEmpty, SrcGif, SrcTxt, SrcDir, SrcHttp, SrcHttps }
MimeTexts == { "", "image/gif", "image/png" }

SourceInputs == { SassString(s) : s \in SourceTexts } \cup { SassNumberSource }
MimeInputs == { SassString(m) : m \in MimeTexts } \cup { sassNull, SassNumberMime }

(***************************************************************************)
(* State.                                                                  *)
(***************************************************************************)
VARIABLES
    installed,      \* the optional modules require() finds: file-type, node-fetch
    caches,         \* the cache objects: BASE64LOAD_DEFAULT_OPTIONS.cache and a caller's own
    loaders,        \* local_options and callback of each factory call that returned
    sassOptions,    \* the host configuration object handed to the factory
    factoryResult,  \* outcome of the latest factory call
    calls,          \* the bag of async handler invocations in flight
    invocations,    \* number of handler invocations so far
    result,         \* the invocation that finished last, as it ended
    writers         \* history: which invocation wrote each cache entry

vars == << installed, caches, loaders, sassOptions, factoryResult, calls,
           invocations, result, writers >>

LoaderIds == { 1, 2 }
CacheIds == { "defaultCache", "userCache" }
EmptyCache == [s \in SourceTexts |-> NoText]       \* {}

(***************************************************************************)
(* Cache facade, line 50-70 (mapping-style cache).                         *)
(***************************************************************************)
\* _internal_base64load_fromCache: a falsy value is a miss
FromCache(source, cache) ==
    IF cache[source] # NoText THEN cache[source] ELSE NoText

\* faulty variants of the write: none at all, and one that keeps the first value
ToCacheSkip(source, value, cache) == cache
ToCacheKeepFirst(source, value, cache) ==
    IF cache[source] # NoText THEN cache ELSE [cache EXCEPT ![source] = value]

\* _internal_base64load_toCache
ToCache(source, value, cache) == [cache EXCEPT ![source] = value]

(***************************************************************************)
(* _internal_base64load_valid_arguments, line 278-304.                     *)
(***************************************************************************)
Truthy(mime) == mime # Null /\ mime # ""

\* faulty variant: the sync handler lets a url through
UrlNeedsAsyncNever(sync, source) == FALSE

\* line 292: a url is refused in sync mode
UrlNeedsAsync(sync, source) == sync /\ isUrl(source)

ValidArguments(input, sync) ==
    IF input[1].type # "string"
        THEN [err |-> "InvalidSourceType", source |-> <<>>, mime |-> Null]
    ELSE IF Len(input[1].text) = 0
        THEN [err |-> "InvalidSource", source |-> <<>>, mime |-> Null]
    ELSE IF UrlNeedsAsync(sync, input[1].text)
        THEN [err |-> "RemoteRequiresAsync", source |-> input[1].text, mime |-> Null]
    ELSE IF input[2].type \notin { "null", "string" }
        THEN [err |-> "InvalidMimeType", source |-> input[1].text, mime |-> Null]
    ELSE LET mime == IF input[2].type = "null" THEN Null ELSE input[2].text
         IN  IF (sync /\ IsEmpty(mime)) \/ (Truthy(mime) /\ mime = "")
                THEN [err |-> IF sync THEN "MimeRequiredSync" ELSE "MimeRequired",
                      source |-> input[1].text, mime |-> mime]
                ELSE [err |-> Null, source |-> input[1].text, mime |-> mime]

(***************************************************************************)
(* _internal_base64load_resolve_source_sync, line 87-114.                  *)
(***************************************************************************)
ResolveSourceSync(source, options) ==
    LET cwd == IF options.cwd # NoPath THEN options.cwd ELSE ProcessCwd
        file == IF source[1] # "/" THEN cwd \o << "/" >> \o source ELSE source
        exists == FsKind(file) = "file"
    IN  IF ~exists
            THEN [err |-> "NotFound", file |-> file, file_buffer |-> NoBuf,
                  stats |-> 1, reads |-> 0]
            ELSE [err |-> Null, file |-> file, file_buffer |-> FsBytes(file),
                  stats |-> 1, reads |-> 1]

\* faulty variant of _internal_base64load_sync: the cache entry is written before the
\* source is resolved
InternalSyncEager(source, mime, options, cache) ==
    LET cached == IF options.cache # Null THEN FromCache(source, cache) ELSE NoText
        res == ResolveSourceSync(source, options)
        output == DataUri(mime, IF res.err = Null THEN res.file_buffer ELSE <<>>)
    IN  IF cached # NoText
            THEN [err |-> Null, text |-> cached, cache |-> cache, hit |-> TRUE,
                  stats |-> 0, reads |-> 0]
            ELSE [err |-> res.err, text |-> IF res.err = Null THEN output ELSE NoText,
                  cache |-> ToCache(source, output, cache), hit |-> FALSE,
                  stats |-> res.stats, reads |-> res.reads]

(***************************************************************************)
(* _internal_base64load_sync, line 222-237: the outcome of one run on the  *)
(* cache content `cache` (options.cache may be null: no caching).          *)
(***************************************************************************)
InternalSync(source, mime, options, cache) ==
    LET cached == IF options.cache # Null THEN FromCache(source, cache) ELSE NoText
        res == ResolveSourceSync(source, options)
        output == DataUri(mime, res.file_buffer)
    IN  IF cached # NoText
            THEN [err |-> Null, text |-> cached, cache |-> cache, hit |-> TRUE,
                  stats |-> 0, reads |-> 0]
        ELSE IF res.err # Null
            THEN [err |-> res.err, text |-> NoText, cache |-> cache, hit |-> FALSE,
                  stats |-> res.stats, reads |-> res.reads]
        ELSE [err |-> Null, text |-> output,
              cache |-> IF options.cache # Null THEN ToCache(source, output, cache)
                        ELSE cache,
              hit |-> FALSE, stats |-> res.stats, reads |-> res.reads]

(***************************************************************************)
(* The factory, line 356-434.  An options object is given with each key    *)
(* unset (<<>>) or set (<<value>>); options = null is an object-less       *)
(* argument.                                                               *)
(***************************************************************************)
SASS_FUNCTION_SIGNATURE == "base64load($source,$mimetype:null)"
OtherSignature == "other($x)"
Signatures == { SASS_FUNCTION_SIGNATURE, OtherSignature }

BASE64LOAD_DEFAULT_OPTIONS ==
    [detect |-> FALSE, remote |-> FALSE, cwd |-> NoPath, cache |-> "defaultCache"]

Options(d, r, w, c) == [object |-> TRUE, detect |-> d, remote |-> r, cwd |-> w, cache |-> c]
NullOptions == [object |-> FALSE, detect |-> <<>>, remote |-> <<>>, cwd |-> <<>>, cache |-> <<>>]

\* { ...BASE64LOAD_DEFAULT_OPTIONS } then Object.assign( local_options, options ):
\* the copy is shallow, so an unset cache key leaves the one default cache object
LocalOptions(options) ==
    LET pick(given, default) ==
            IF options.object /\ given # <<>> THEN given[1] ELSE default
    IN  [detect |-> pick(options.detect, BASE64LOAD_DEFAULT_OPTIONS.detect),
         remote |-> pick(options.remote, BASE64LOAD_DEFAULT_OPTIONS.remote),
         cwd |-> pick(options.cwd, BASE64LOAD_DEFAULT_OPTIONS.cwd),
         cache |-> pick(options.cache, BASE64LOAD_DEFAULT_OPTIONS.cache)]

\* handler.callback, line 407
Callback(local_options) ==
    IF local_options.remote \/ local_options.detect THEN "async" ELSE "sync"

NoLoader == [made |-> FALSE, options |-> BASE64LOAD_DEFAULT_OPTIONS, callback |-> "none",
             keyed |-> FALSE]
Loader(options) ==
    [made |-> TRUE, options |-> LocalOptions(options),
     callback |-> Callback(LocalOptions(options)),
     keyed |-> options.object /\ options.cache # <<>>]

\* an entry of sassOptions.functions: undefined, a function of the host's, or a callback
Undefined == [kind |-> "undefined", loader |-> 0]
HostFunction == [kind |-> "host", loader |-> 0]
CallbackOf(l, loader) == [kind |-> loader.callback, loader |-> l]
NoFunctions == [s \in Signatures |-> Undefined]

\* faulty variant: an entry under the signature is overwritten
RegisterOverwrite(host, callback) ==
    LET table == IF ~host.table THEN [table |-> TRUE, functions |-> NoFunctions] ELSE host
    IN  [err |-> Null,
         host |-> [table EXCEPT !.functions[SASS_FUNCTION_SIGNATURE] = callback]]

\* line 410-430 on the host object `host` = [table |-> has a functions object, functions]
Register(host, callback) ==
    LET table == IF ~host.table THEN [table |-> TRUE, functions |-> NoFunctions] ELSE host
    IN  IF table.functions[SASS_FUNCTION_SIGNATURE] # Undefined
            THEN [err |-> "DuplicateSignature", host |-> table]
            ELSE [err |-> Null,
                  host |-> [table EXCEPT !.functions[SASS_FUNCTION_SIGNATURE] = callback]]

\* module.exports = function base64Loader( options, sassOptions ), line 356-434
Factory(options, sassArg) ==
    \E l \in LoaderIds :
        /\ factoryResult.n < MaxFactoryCalls
        /\ ~loaders[l].made
        /\ \A m \in LoaderIds : m < l => loaders[m].made
        /\ LET loader == Loader(options)
               reg == Register(sassOptions, CallbackOf(l, loader))
               err == IF sassArg = "notObject" THEN "InvalidHostConfig"
                      ELSE IF sassArg = "host" THEN reg.err
                      ELSE Null
           IN  /\ factoryResult' = [err |-> err, loader |-> IF err = Null THEN l ELSE 0,
                                    sassArg |-> sassArg, n |-> factoryResult.n + 1]
               /\ sassOptions' = IF sassArg = "host" THEN reg.host ELSE sassOptions
               /\ loaders' = IF err = Null THEN [loaders EXCEPT ![l] = loader] ELSE loaders
        /\ UNCHANGED << installed, caches, calls, invocations, result, writers >>

(***************************************************************************)
(* Handler invocations.  pc is the suspension point of an async handler:   *)
(* "fetch", "body", "fromBuffer", "fromFile" await the named call,         *)
(* "resolved" awaits the settled promises of line 208 and 256; "done" and  *)
(* "failed" are the ends (a value returned, an error thrown).              *)
(***************************************************************************)
NoInput == << SassNumberSource, sassNull >>
NoWriter == [loader |-> 0, input |-> NoInput]

\* an invocation: its arguments, the locals of the handler, and history: the stats,
\* reads, fetches, sniffer loads and sniffer calls it made, `again` when the
\* invocation that finished last before it began returned a value to the same loader
\* for the same input, `before` the text that one returned, `cache0` the cache content
\* it began on, `over` and `overBy` the cache entry its write replaced and its writer
IdleCall ==
    [pc |-> "idle", loader |-> 0, input |-> NoInput, source |-> <<>>, mime |-> Null,
     file_buffer |-> NoBuf, file |-> NoPath, text |-> NoText, err |-> Null,
     hit |-> FALSE, stats |-> 0, reads |-> 0, fetches |-> 0, sniffLoads |-> 0,
     sniffs |-> 0, again |-> FALSE, before |-> NoText, cache0 |-> EmptyCache,
     over |-> NoText, overBy |-> NoWriter]

\* the content of the cache object local_options.cache names ({} when there is none)
CacheOf(l) ==
    IF loaders[l].options.cache # Null THEN caches[loaders[l].options.cache] ELSE EmptyCache

Begin(l, input) ==
    LET again == result.pc = "done" /\ result.loader = l /\ result.input = input
    IN  [IdleCall EXCEPT !.loader = l, !.input = input, !.again = again,
                         !.before = IF again THEN result.text ELSE NoText,
                         !.cache0 = CacheOf(l)]

Failed(c, err) == [c EXCEPT !.pc = "failed", !.err = err]
Returned(c, text) == [c EXCEPT !.pc = "done", !.text = text]

\* the invocations in flight but c
Others(c) == IF c.pc = "idle" THEN calls ELSE calls (-) SetToBag({ c })

\* invocation c (a new one when c is idle) goes on as d: it stays in flight, or it has
\* ended and the host has its value or its error
Settle(c, d) ==
    IF d.pc \in { "done", "failed" }
        THEN calls' = Others(c) /\ result' = d
        ELSE calls' = Others(c) (+) SetToBag({ d }) /\ UNCHANGED result

\* base64loadSync, line 372-383
Base64loadSync(l, input) ==
    /\ loaders[l].made /\ loaders[l].callback = "sync"
    /\ invocations' = invocations + 1
    /\ LET args == ValidArguments(input, TRUE)
           run == InternalSync(args.source, args.mime, loaders[l].options, CacheOf(l))
           cache == loaders[l].options.cache
           c == [Begin(l, input) EXCEPT !.source = args.source, !.mime = args.mime]
       IN  IF args.err # Null
              THEN /\ result' = Failed(c, args.err)
                   /\ UNCHANGED << caches, writers >>
           ELSE /\ result' = IF run.err # Null
                                THEN Failed([c EXCEPT !.stats = run.stats,
                                                      !.reads = run.reads], run.err)
                                ELSE Returned([c EXCEPT !.stats = run.stats,
                                                        !.reads = run.reads,
                                                        !.hit = run.hit], run.text)
                /\ caches' = IF cache # Null THEN [caches EXCEPT ![cache] = run.cache]
                             ELSE caches
                /\ writers' = IF cache # Null /\ run.err = Null /\ ~run.hit
                                 THEN [writers EXCEPT ![cache][args.source] =
                                            [loader |-> l, input |-> input]]
                                 ELSE writers
    /\ UNCHANGED << installed, loaders, sassOptions, factoryResult, calls >>

(***************************************************************************)
(* _internal_base64load_get_mimetype_async, line 126-156, cut at its       *)
(* awaits.                                                                 *)
(***************************************************************************)
\* line 152-155
FailCheck(c) ==
    IF IsEmpty(c.mime) THEN Failed(c, "MimeUndetected") ELSE [c EXCEPT !.pc = "resolved"]

\* line 129-136 and 143-144: up to the first sniffer call
GetMimetypeEnter(c) ==
    IF (c.file # NoPath \/ c.file_buffer # NoBuf) /\ IsEmpty(c.mime)
        THEN LET d == [c EXCEPT !.sniffLoads = @ + 1]
             IN  IF "file-type" \notin installed THEN Failed(d, "MissingDependency")
                 ELSE IF d.file_buffer # NoBuf
                    THEN [d EXCEPT !.pc = "fromBuffer", !.sniffs = @ + 1]
                 ELSE IF d.file # NoPath
                    THEN [d EXCEPT !.pc = "fromFile", !.sniffs = @ + 1]
                 ELSE FailCheck(d)
        ELSE FailCheck(c)

\* line 136-144: fromBuffer has answered
AfterFromBuffer(c) ==
    LET buffer_type == FromBuffer(c.file_buffer)
        d == IF buffer_type # Null THEN [c EXCEPT !.mime = buffer_type] ELSE c
    IN  IF d.file # NoPath /\ IsEmpty(d.mime)
            THEN [d EXCEPT !.pc = "fromFile", !.sniffs = @ + 1]
            ELSE FailCheck(d)

\* line 144-155: fromFile has answered
AfterFromFile(c) ==
    LET file_type == FromFile(c.file)
    IN  FailCheck(IF file_type # Null THEN [c EXCEPT !.mime = file_type] ELSE c)

(***************************************************************************)
(* base64loadAsync, line 391-402, with _internal_base64load_async and      *)
(* _internal_base64load_resolve_source_async, up to the first await.       *)
(***************************************************************************)
\* faulty variant: the remote option is not looked at
RemoteAllowedAlways(options) == TRUE

\* line 172: remote loading must be active
RemoteAllowed(options) == options.remote

AsyncEnter(l, input) ==
    LET args == ValidArguments(input, FALSE)
        options == loaders[l].options
        c == [Begin(l, input) EXCEPT !.source = args.source, !.mime = args.mime]
        cached == IF options.cache # Null THEN FromCache(args.source, CacheOf(l)) ELSE NoText
        res == ResolveSourceSync(args.source, options)
    IN  IF args.err # Null THEN Failed(c, args.err)
        ELSE IF cached # NoText THEN Returned([c EXCEPT !.hit = TRUE], cached)
        ELSE IF isUrl(args.source)
            THEN IF ~RemoteAllowed(options) THEN Failed(c, "RemoteDisabled")
                 ELSE IF "node-fetch" \notin installed THEN Failed(c, "MissingDependency")
                 ELSE [c EXCEPT !.pc = "fetch", !.fetches = @ + 1]
        ELSE IF res.err # Null
            THEN Failed([c EXCEPT !.stats = res.stats, !.reads = res.reads], res.err)
        ELSE GetMimetypeEnter([c EXCEPT !.stats = res.stats, !.reads = res.reads,
                                        !.file_buffer = res.file_buffer, !.file = res.file])

Base64loadAsync(l, input) ==
    /\ BagCardinality(calls) < MaxSlots
    /\ loaders[l].made /\ loaders[l].callback = "async"
    /\ invocations' = invocations + 1
    /\ Settle(IdleCall, AsyncEnter(l, input))
    /\ UNCHANGED << installed, caches, loaders, sassOptions, factoryResult, writers >>

\* line 181-194: fetch( source ) has settled
FetchDone(c, outcome) ==
    /\ c.pc = "fetch"
    /\ Settle(c, IF outcome = "ok" THEN [c EXCEPT !.pc = "body"]
                 ELSE Failed(c, "FetchError"))
    /\ UNCHANGED << installed, caches, loaders, sassOptions, factoryResult, invocations,
                    writers >>

\* faulty variant: the content-type header always wins
HeaderMimeFirst(c) == RemoteContentType(c.source)

\* line 195-197: the content-type header stands in only for a missing $mimetype
HeaderMime(c) == IF IsEmpty(c.mime) THEN RemoteContentType(c.source) ELSE c.mime

\* line 194-208: result.buffer() has settled
BodyDone(c) ==
    /\ c.pc = "body"
    /\ Settle(c, GetMimetypeEnter([c EXCEPT !.file_buffer = RemoteBody(c.source),
                                            !.mime = HeaderMime(c)]))
    /\ UNCHANGED << installed, caches, loaders, sassOptions, factoryResult, invocations,
                    writers >>

FromBufferDone(c) ==
    /\ c.pc = "fromBuffer"
    /\ Settle(c, AfterFromBuffer(c))
    /\ UNCHANGED << installed, caches, loaders, sassOptions, factoryResult, invocations,
                    writers >>

FromFileDone(c) ==
    /\ c.pc = "fromFile"
    /\ Settle(c, AfterFromFile(c))
    /\ UNCHANGED << installed, caches, loaders, sassOptions, factoryResult, invocations,
                    writers >>

\* faulty variant: the async output lacks its quotes
AsyncOutputUnquoted(c) == << "data:", c.mime, ";base64," >> \o Base64(c.file_buffer)

\* the output written by line 259-260
AsyncOutput(c) == DataUri(c.mime, c.file_buffer)

\* line 259-261, then 398-401
Finish(c) ==
    /\ c.pc = "resolved"
    /\ LET cache == loaders[c.loader].options.cache
           output == AsyncOutput(c)
       IN  /\ Settle(c, Returned([c EXCEPT !.over = CacheOf(c.loader)[c.source],
                                            !.overBy = IF cache # Null
                                                          THEN writers[cache][c.source]
                                                          ELSE NoWriter],
                                  output))
           /\ caches' = IF cache # Null
                           THEN [caches EXCEPT ![cache] = ToCache(c.source, output, @)]
                           ELSE caches
           /\ writers' = IF cache # Null
                            THEN [writers EXCEPT ![cache][c.source] =
                                       [loader |-> c.loader, input |-> c.input]]
                            ELSE writers
    /\ UNCHANGED << installed, loaders, sassOptions, factoryResult, invocations >>

(***************************************************************************)
(* Specifications.                                                         *)
(***************************************************************************)
OptionInputs ==
    { NullOptions }
    \cup { Options(<< d >>, << r >>, <<>>, c) :
             d \in BOOLEAN, r \in BOOLEAN, c \in { <<>>, << "userCache" >>, << Null >> } }
    \cup { Options(<<>>, <<>>, << SrvDir >>, <<>>) }

\* a cache object handed over as options.cache: empty, or filled before
UserCaches ==
    { [EmptyCache EXCEPT ![SrcHttp] = DataUri("image/png", PngBytes)] }

HostConfigs ==
    { [table |-> FALSE, functions |-> NoFunctions],
      [table |-> TRUE, functions |-> NoFunctions],
      [table |-> TRUE, functions |-> [NoFunctions EXCEPT ![OtherSignature] = HostFunction]],
      [table |-> TRUE,
       functions |-> [s \in Signatures |-> HostFunction]] }

\* one loader made by the factory, any options, no host configuration object
Init ==
    /\ installed \in SUBSET { "file-type", "node-fetch" }
    /\ \E options \in OptionInputs :
          loaders = [l \in LoaderIds |-> IF l = 1 THEN Loader(options) ELSE NoLoader]
    /\ \E user \in UserCaches :
          caches = [c \in CacheIds |-> IF c = "userCache" THEN user ELSE EmptyCache]
    /\ sassOptions = [table |-> FALSE, functions |-> NoFunctions]
    /\ factoryResult = [err |-> Null, loader |-> 1, sassArg |-> "null", n |-> 1]
    /\ calls = EmptyBag
    /\ invocations = 0
    /\ result = IdleCall
    /\ writers = [c \in CacheIds |-> [s \in SourceTexts |-> NoWriter]]

\* the steps of the handlers, on the given $source and $mimetype values, with at most
\* `most` invocations
Handlers(sources, mimes, most) ==
    \/ \E l \in LoaderIds, source \in sources, mime \in mimes :
          invocations < most /\ Base64loadSync(l, << source, mime >>)
    \/ \E l \in LoaderIds, source \in sources, mime \in mimes :
          invocations < most /\ Base64loadAsync(l, << source, mime >>)
    \/ \E c \in BagToSet(calls), outcome \in { "throw", "notok", "ok" } :
          FetchDone(c, outcome)
    \/ \E c \in BagToSet(calls) : BodyDone(c)
    \/ \E c \in BagToSet(calls) : FromBufferDone(c)
    \/ \E c \in BagToSet(calls) : FromFileDone(c)
    \/ \E c \in BagToSet(calls) : Finish(c)

Next == Handlers(SourceInputs, MimeInputs, MaxInvocations)

Spec == Init /\ [][Next]_vars

(***************************************************************************)
(* The factory and the loaders it makes: no loader yet, any host           *)
(* configuration object, then factory calls and handler invocations.       *)
(***************************************************************************)
FactoryOptionInputs ==
    { NullOptions,
      Options(<< TRUE >>, <<>>, <<>>, <<>>),
      Options(<<>>, << TRUE >>, <<>>, <<>>),
      Options(<<>>, <<>>, << SrvDir >>, << "userCache" >>) }
FactorySourceInputs == { SassString(SrcGif), SassString(SrcTxt), SassString(SrcHttp) }
FactoryMimeInputs == { sassNull, SassString("image/png") }

InitFactory ==
    /\ installed = { "file-type", "node-fetch" }
    /\ loaders = [l \in LoaderIds |-> NoLoader]
    /\ caches = [c \in CacheIds |-> EmptyCache]
    /\ sassOptions \in HostConfigs
    /\ factoryResult = [err |-> Null, loader |-> 0, sassArg |-> "null", n |-> 0]
    /\ calls = EmptyBag
    /\ invocations = 0
    /\ result = IdleCall
    /\ writers = [c \in CacheIds |-> [s \in SourceTexts |-> NoWriter]]

NextFactory ==
    \/ \E options \in FactoryOptionInputs, sassArg \in { "null", "notObject", "host" } :
          Factory(options, sassArg)
    \/ Handlers(FactorySourceInputs, FactoryMimeInputs, MaxLoaderInvocations)

SpecFactory == InitFactory /\ [][NextFactory]_vars

(***************************************************************************)
(* Properties.                                                             *)
(***************************************************************************)
\* the invocations of a state: those in flight and the one that finished last
Invocations == BagToSet(calls) \cup { result }
Active(c) == c.pc # "idle"
Sync(c) == loaders[c.loader].callback = "sync"
Async(c) == loaders[c.loader].callback = "async"
HasCache(c) == loaders[c.loader].options.cache # Null
UrlCall(c) == c.input[1].type = "string" /\ isUrl(c.input[1].text)
LocalCall(c) ==
    c.input[1].type = "string" /\ Len(c.input[1].text) > 0 /\ ~isUrl(c.input[1].text)
TypedMime(c) == c.input[2].type \in { "null", "string" }
GivenMime(c) == c.input[2].type = "string" /\ c.input[2].text # ""
NoIO(c) ==
    c.stats = 0 /\ c.reads = 0 /\ c.fetches = 0 /\ c.sniffLoads = 0 /\ c.sniffs = 0
MimeOfOutput(text) == text[2]
\* the content of loader l's cache after the step
CacheAfter(l) ==
    IF loaders[l].options.cache # Null THEN caches'[loaders[l].options.cache] ELSE EmptyCache
\* the step is one in which an invocation ends: result' is that invocation
Ends ==
    \/ BagCardinality(calls') < BagCardinality(calls)
    \/ invocations' = invocations + 1 /\ calls' = calls

\* C1: on a loader with a cache, an invocation that directly follows a successful
\* invocation of the same loader with the same source and mimetype returns the same
\* text and does no stat, read, fetch or sniffing.
C1_SecondCallFromCache ==
    \A c \in Invocations :
        Active(c) /\ c.again /\ HasCache(c)
            => c.pc = "done" /\ c.text = c.before /\ NoIO(c)

C1_Witness ==
    /\ result.again /\ HasCache(result)
    /\ result.pc = "done" /\ result.hit
    /\ result.cache0[result.source] = result.text
    /\ result.before = result.text

\* C2 as claimed: an async invocation on a url with remote = false always fails with
\* RemoteDisabled and fetches nothing, whatever the cache holds.
C2_AlwaysRemoteDisabled ==
    \A c \in Invocations :
        Active(c) /\ Async(c) /\ UrlCall(c) /\ TypedMime(c)
        /\ ~loaders[c.loader].options.remote
            => c.pc = "failed" /\ c.err = "RemoteDisabled" /\ c.fetches = 0

\* C2 amended: such an invocation never fetches and never touches the file system; it
\* fails with RemoteDisabled unless the cache holds a value for the source, which is
\* then returned.
C2_RemoteDisabledUnlessCached ==
    \A c \in Invocations :
        Active(c) /\ Async(c) /\ UrlCall(c) /\ TypedMime(c)
        /\ ~loaders[c.loader].options.remote
            => /\ c.fetches = 0 /\ c.stats = 0 /\ c.reads = 0
               /\ IF HasCache(c) /\ c.cache0[c.input[1].text] # NoText
                     THEN c.pc = "done" /\ c.text = c.cache0[c.input[1].text]
                     ELSE c.pc = "failed" /\ c.err = "RemoteDisabled"

C2_Witness ==
    /\ Active(result) /\ Async(result) /\ UrlCall(result) /\ TypedMime(result)
    /\ ~loaders[result.loader].options.remote
    /\ result.pc = "failed" /\ result.err = "RemoteDisabled"
    /\ "node-fetch" \in installed

\* C3 as claimed: for a non-empty local source the sync handler rejects a null and an
\* empty mimetype, the async handler accepts null and rejects an empty string, and a
\* non-empty mimetype is accepted by both.  A rejected invocation resolves nothing:
\* it does not go on to encode the source and return the text.
C3_MimeValidation ==
    \A c \in Invocations :
        Active(c) /\ LocalCall(c)
            => /\ Sync(c) /\ c.input[2] \in { sassNull, SassString("") }
                    => c.pc = "failed" /\ c.err = "MimeRequiredSync"
               /\ Async(c) /\ c.input[2] = sassNull
                    => c.err # "MimeRequired"
               /\ Async(c) /\ c.input[2] = SassString("")
                    => ~(c.pc = "done" /\ ~c.hit)
               /\ GivenMime(c)
                    => c.err \notin { "MimeRequired", "MimeRequiredSync" }

\* C4: a step in which an invocation fails leaves every cache as it was and returns no
\* text, and a cache changes only in a step in which an invocation returns.
C4_ErrorsLeaveCache ==
    [][ /\ Ends /\ result'.pc = "failed" => caches' = caches /\ result'.text = NoText
        /\ caches' # caches => Ends /\ result'.pc = "done" /\ ~result'.hit ]_vars

C4_Witness ==
    /\ result.pc = "failed" /\ result.err = "MimeUndetected"
    /\ result.fetches = 1 /\ result.file_buffer = RemoteBody(result.source)
    /\ HasCache(result) /\ CacheOf(result.loader)[result.source] = NoText

\* C5 as claimed: an async invocation with a non-empty mimetype never loads or calls
\* the sniffer, and the text it returns carries the given mimetype.
C5_GivenMimeUsed ==
    \A c \in Invocations :
        Active(c) /\ Async(c) /\ GivenMime(c)
            => /\ c.sniffLoads = 0 /\ c.sniffs = 0
               /\ c.pc = "done" => MimeOfOutput(c.text) = c.input[2].text

\* C5 amended: ... and the text it returns carries the given mimetype unless the text
\* comes from the cache, which is returned as it is.
C5_GivenMimeUsedUnlessCached ==
    \A c \in Invocations :
        Active(c) /\ Async(c) /\ GivenMime(c)
            => /\ c.sniffLoads = 0 /\ c.sniffs = 0
               /\ c.pc = "done" /\ ~c.hit => MimeOfOutput(c.text) = c.input[2].text
               /\ c.pc = "done" /\ c.hit => c.text = c.cache0[c.source]

C5_Witness ==
    /\ Active(result) /\ Async(result) /\ GivenMime(result) /\ UrlCall(result)
    /\ result.pc = "done" /\ ~result.hit
    /\ RemoteContentType(result.source) \notin { Null, result.input[2].text }
    /\ loaders[result.loader].options.detect

\* C6: a sync invocation on a url fails with RemoteRequiresAsync whatever the mimetype
\* argument and the cache content, and no sync invocation fetches.
C6_SyncUrlRefused ==
    \A c \in Invocations :
        Active(c) /\ Sync(c)
            => /\ c.fetches = 0
               /\ UrlCall(c) => c.pc = "failed" /\ c.err = "RemoteRequiresAsync"

C6_Witness ==
    /\ Active(result) /\ Sync(result) /\ UrlCall(result)
    /\ result.err = "RemoteRequiresAsync"
    /\ HasCache(result) /\ result.cache0[result.input[1].text] # NoText

\* C7: an async invocation on an existing local file with a non-empty mimetype ends as
\* the sync encoder, run on the cache content the invocation started from, ends: the
\* same text, the same cache entry for the source, and the same cache when no other
\* invocation wrote meanwhile.
C7_SyncAsyncAgree ==
    [][ Ends /\ loaders[result'.loader].callback = "async"
        /\ result'.input[1].type = "string" /\ Len(result'.input[1].text) > 0
        /\ ~isUrl(result'.input[1].text)
        /\ result'.input[2].type = "string" /\ result'.input[2].text # ""
        /\ ResolveSourceSync(result'.input[1].text,
                             loaders[result'.loader].options).err = Null
            => LET c == result'
                   run == InternalSync(c.input[1].text, c.input[2].text,
                                       loaders[c.loader].options, c.cache0)
               IN  /\ c.pc = "done" /\ c.text = run.text
                   /\ CacheAfter(c.loader)[c.source] = run.cache[c.source]
                   /\ CacheOf(c.loader) = c.cache0 => CacheAfter(c.loader) = run.cache ]_vars

C7_Witness ==
    /\ Active(result) /\ Async(result) /\ LocalCall(result) /\ GivenMime(result)
    /\ result.pc = "done" /\ ~result.hit /\ HasCache(result)
    /\ result.text = DataUri(result.input[2].text, GifBytes)
    /\ CacheOf(result.loader) = ToCache(result.source, result.text, result.cache0)

\* C8: a factory call on a host configuration object whose function table has an
\* entry under the signature fails with DuplicateSignature and changes neither the
\* object nor the loaders; without such an entry it installs its callback there and
\* leaves the other entries alone.
FactoryStep == factoryResult'.n = factoryResult.n + 1
HasEntry == sassOptions.table /\ sassOptions.functions[SASS_FUNCTION_SIGNATURE] # Undefined

C8_NoOverwrite ==
    [][ FactoryStep /\ factoryResult'.sassArg = "host"
            => IF HasEntry
                  THEN /\ factoryResult'.err = "DuplicateSignature"
                       /\ sassOptions' = sassOptions
                       /\ loaders' = loaders
                  ELSE /\ factoryResult'.err = Null
                       /\ sassOptions'.table
                       /\ sassOptions'.functions[SASS_FUNCTION_SIGNATURE]
                            = CallbackOf(factoryResult'.loader,
                                         loaders'[factoryResult'.loader])
                       /\ sassOptions'.functions[OtherSignature]
                            = IF sassOptions.table
                                 THEN sassOptions.functions[OtherSignature]
                                 ELSE Undefined ]_vars

C8_Witness ==
    /\ factoryResult.err = "DuplicateSignature" /\ factoryResult.n >= 2
    /\ sassOptions.functions[SASS_FUNCTION_SIGNATURE] = CallbackOf(1, loaders[1])
    /\ sassOptions.functions[OtherSignature] = HostFunction
    /\ ~loaders[2].made

\* an async invocation that missed the cache and, when it wrote, found a value that
\* another invocation of its loader, in flight with it, had written meanwhile
Raced(c) ==
    /\ c.pc = "done" /\ ~c.hit /\ Async(c) /\ HasCache(c)
    /\ c.over # NoText /\ c.overBy.loader = c.loader

\* C9 as claimed: two async invocations of one loader, in flight together, that both
\* missed the cache on the same source and both returned have returned the same text,
\* and the cache holds that text for the source whichever wrote last.
C9_RaceBenign ==
    Raced(result)
        => /\ result.text = result.over
           /\ CacheOf(result.loader)[result.source] = result.text

\* C9 amended: ... on the same source with the same mimetype argument ...; and every
\* write stores the text its invocation returns.
C9_RaceBenignSameMime ==
    /\ Raced(result) /\ result.overBy.input = result.input
          => /\ result.text = result.over
             /\ CacheOf(result.loader)[result.source] = result.text
    /\ result.pc = "done" /\ ~result.hit /\ HasCache(result)
          => CacheOf(result.loader)[result.source] = result.text

C9_Witness ==
    /\ Raced(result) /\ result.overBy.input = result.input
    /\ result.fetches = 1
    /\ result.text = result.over
    /\ CacheOf(result.loader)[result.source] = result.text

\* C10 as claimed: a loader made without a cache option starts with an empty cache of
\* its own: an invocation through one such loader leaves the cache of every other such
\* loader as it was.
C10_OwnDefaultCache ==
    [][ /\ FactoryStep /\ factoryResult'.err = Null
           /\ ~loaders'[factoryResult'.loader].keyed
              => caches[loaders'[factoryResult'.loader].options.cache] = EmptyCache
        /\ \A l \in LoaderIds :
              Ends /\ result'.pc = "done" /\ l # result'.loader
              /\ loaders[l].made /\ ~loaders[l].keyed /\ ~loaders[result'.loader].keyed
                  => CacheAfter(l) = CacheOf(l) ]_vars

====
